---- MODULE Spec2Model ----
(***************************************************************************)
(* Authentication / token lifecycle core of the backend:                   *)
(* AuthService (login, refresh, logout, logout-all), UserService           *)
(* (registration, password change, deactivation), the repositories they    *)
(* call and the security helpers.  The database is the pair                *)
(* (users, tokens); every request runs in its own session.                 *)
(***************************************************************************)
EXTENDS Naturals, Sequences, FiniteSets, TLC

VARIABLES users, tokens, now, access, last, reqs

vars == <<users, tokens, now, access, last, reqs>>

(***************************************************************************)
(* Bounds of the model.                                                    *)
(***************************************************************************)
MaxTokens == 2
MaxTime == 1
MaxVersion == 2

(* Scaled clock units: lifetimes of refresh and access tokens.             *)
RefreshTTL == 1
AccessTTL == 1

UserIds == {1, 2}
Emails == {"alice@example.com", "bob@example.com"}
Passwords == {"Passw0rd!", "hunter2hunter2"}
Slots == {1, 2}

(***************************************************************************)
(* Error kinds: BaseAppException(message, status_code); the boundary       *)
(* renders {detail: message, type: class name} with status_code.           *)
(***************************************************************************)
Ok == [type |-> "ok", message |-> "", status |-> 200]

AuthenticationError(cls, msg) == [type |-> cls, message |-> msg, status |-> 401]

InvalidCredentials == AuthenticationError("InvalidCredentials", "Invalid email or password")

InactiveUser == AuthenticationError("InactiveUser", "User account is inactive")

TokenError(msg) == AuthenticationError("TokenError", msg)

TokenRevokedError == AuthenticationError("TokenRevokedError", "Token has been revoked")

UserNotFound == [type |-> "UserNotFound", message |-> "User not found", status |-> 404]

EmailAlreadyExists == [type |-> "EmailAlreadyExists", message |-> "Email is already registered", status |-> 409]

DatabaseError == [type |-> "DatabaseError", message |-> "database error", status |-> 500]

(***************************************************************************)
(* PasswordHasher.  A hash string embeds its parameters and the digest of  *)
(* the password; `outdated` says the parameters are no longer the          *)
(* recommended ones, so verify_and_update returns a fresh hash.            *)
(***************************************************************************)
NoHash == [alg |-> "none", pw |-> "", outdated |-> FALSE]

hash_password(password) == [alg |-> "argon2id", pw |-> password, outdated |-> FALSE]

(* Mutant: the pair that verify_and_update returns is taken for its first   *)
(* component, so every password passes against a well-formed hash.          *)
verify_password_pair_is_truthy(plain_password, hashed_password) ==
    IF hashed_password.alg = "argon2id"
    THEN [valid |-> TRUE,
          new_hash |-> IF hashed_password.outdated
                       THEN hash_password(plain_password) ELSE NoHash,
          verified |-> <<hashed_password>>]
    ELSE [valid |-> FALSE, new_hash |-> NoHash, verified |-> <<hashed_password>>]

verify_password(plain_password, hashed_password) ==
    IF hashed_password.alg = "argon2id" /\ hashed_password.pw = plain_password
    THEN [valid |-> TRUE,
          new_hash |-> IF hashed_password.outdated
                       THEN hash_password(plain_password) ELSE NoHash,
          verified |-> <<hashed_password>>]
    ELSE [valid |-> FALSE, new_hash |-> NoHash, verified |-> <<hashed_password>>]

DUMMY_HASH == hash_password("dummy_password_for_timing_attack_prevention")

(* Mutant: without a stored hash the answer is given at once.               *)
verify_password_skips_dummy(plain_password, hashed_password) ==
    IF hashed_password = NoHash
    THEN [valid |-> FALSE, new_hash |-> NoHash, verified |-> << >>]
    ELSE verify_password(plain_password, hashed_password)

(* verified lists the hashes the hasher was run against, in order.          *)
verify_password_with_timing_safety(plain_password, hashed_password) ==
    IF hashed_password = NoHash
    THEN [valid |-> FALSE, new_hash |-> NoHash,
          verified |-> verify_password(plain_password, DUMMY_HASH).verified]
    ELSE verify_password(plain_password, hashed_password)

(***************************************************************************)
(* TokenCodec.                                                             *)
(***************************************************************************)
NoAccess == [sub |-> 0, type |-> "none", ver |-> 0, exp |-> 0]

create_access_token(user_id, token_version, t) ==
    [sub |-> user_id, type |-> "access", ver |-> token_version, exp |-> t + AccessTTL]

hash_token(raw) == <<"sha256", raw>>

create_refresh_token(raw, t) ==
    [raw |-> raw, token_hash |-> hash_token(raw), expires_at |-> t + RefreshTTL]

(***************************************************************************)
(* UserRepository.  The users table is a function from ids to rows.        *)
(***************************************************************************)
NoId == 0

get_by_email(us, email) ==
    IF \E u \in DOMAIN us : us[u].email = email
    THEN CHOOSE u \in DOMAIN us : us[u].email = email
    ELSE NoId

email_exists(us, email) == \E u \in DOMAIN us : us[u].email = email

user_present(us, id) == id \in DOMAIN us

repo_create_user(us, id, email, hashed_password) ==
    [u \in DOMAIN us \cup {id} |->
        IF u = id
        THEN [email |-> email, hashed_password |-> hashed_password,
              is_active |-> TRUE, token_version |-> 0]
        ELSE us[u]]

increment_token_version(us, id) ==
    [us EXCEPT ![id].token_version = @ + 1]

update_password(us, id, hashed_password) ==
    increment_token_version([us EXCEPT ![id].hashed_password = hashed_password], id)

repo_update_is_active(us, id, flag) == [us EXCEPT ![id].is_active = flag]

(***************************************************************************)
(* RefreshTokenStore.  The table is a sequence of rows, the row id is the  *)
(* index; rows are never deleted.                                          *)
(***************************************************************************)
is_expired(tok, t) == t >= tok.expires_at

Live(tok, t) == ~tok.is_revoked /\ ~is_expired(tok, t)

get_by_hash(ts, token_hash) ==
    IF \E i \in 1..Len(ts) : ts[i].token_hash = token_hash
    THEN CHOOSE i \in 1..Len(ts) : ts[i].token_hash = token_hash
    ELSE NoId

create_token(ts, user_id, token_hash, family_id, expires_at) ==
    Append(ts, [user_id |-> user_id, token_hash |-> token_hash,
                family_id |-> family_id, expires_at |-> expires_at,
                is_revoked |-> FALSE])

revoke_token(ts, i) == [ts EXCEPT ![i].is_revoked = TRUE]

revoke_family(ts, family_id) ==
    [i \in 1..Len(ts) |->
        IF ts[i].family_id = family_id
        THEN [ts[i] EXCEPT !.is_revoked = TRUE] ELSE ts[i]]

FamilyRowsOf(ts, family_id) == {i \in 1..Len(ts) : ts[i].family_id = family_id}

LiveOfUser(ts, user_id, t) ==
    {i \in 1..Len(ts) : ts[i].user_id = user_id /\ Live(ts[i], t)}

revoke_all_user_tokens(ts, user_id, t) ==
    [tokens |-> [i \in 1..Len(ts) |->
                    IF i \in LiveOfUser(ts, user_id, t)
                    THEN [ts[i] EXCEPT !.is_revoked = TRUE] ELSE ts[i]],
     count |-> Cardinality(LiveOfUser(ts, user_id, t))]

(***************************************************************************)
(* Values the program draws at random (refresh-token secrets, uuid7 family *)
(* and row ids) are modelled as the least value not yet in use.            *)
(***************************************************************************)
Fresh(used) ==
    CHOOSE n \in 1..(Cardinality(used) + 1) :
        n \notin used /\ \A m \in 1..(Cardinality(used) + 1) : m \notin used => n <= m

UsedRaws(ts) == {ts[i].token_hash[2] : i \in 1..Len(ts)}

UsedFamilies(ts) == {ts[i].family_id : i \in 1..Len(ts)}

(***************************************************************************)
(* The request's database session: what the request did is committed when  *)
(* the handler returns or fails with an application error, and rolled back *)
(* when the database fails.                                                *)
(***************************************************************************)
(* Mutant: the session commits whatever the request did, also on a failure. *)
session_end_always_commits(pre, work, outcome) == work

session_end(pre, work, outcome) ==
    IF outcome = DatabaseError THEN pre ELSE work

(***************************************************************************)
(* The result of running a handler on a session: the outcome, the tables   *)
(* as the session left them, and what is returned to the caller.           *)
(***************************************************************************)
Result(outcome, us, ts, access_token, raw_refresh, user, ret) ==
    [outcome |-> outcome, users |-> us, tokens |-> ts,
     access_token |-> access_token, raw_refresh |-> raw_refresh,
     user |-> user, ret |-> ret]

(***************************************************************************)
(* get_current_user / get_current_active_user: the bearer dependency of    *)
(* the routes that need a logged-in user.                                  *)
(***************************************************************************)
get_current_user(us, token, t) ==
    IF t >= token.exp THEN TokenError("Signature has expired")
    ELSE IF token.type # "access" THEN TokenError("Invalid token type")
    ELSE IF ~user_present(us, token.sub) THEN UserNotFound
    ELSE Ok

(* The version claim of a decoded token against the user's token_version.   *)
check_token_version(us, token, t) ==
    IF get_current_user(us, token, t) # Ok THEN get_current_user(us, token, t)
    ELSE IF token.ver # us[token.sub].token_version
         THEN TokenError("Token has been invalidated")
    ELSE Ok

get_current_active_user(us, token, t) ==
    IF check_token_version(us, token, t) # Ok THEN check_token_version(us, token, t)
    ELSE IF ~us[token.sub].is_active THEN InactiveUser
    ELSE Ok

(* app_exception_handler: how the boundary renders an application error.    *)
app_exception_handler(exc) ==
    [status_code |-> exc.status,
     content |-> [detail |-> exc.message, type |-> exc.type]]

(***************************************************************************)
(* AuthService.authenticate / login: the credential check, then the        *)
(* upgraded hash is persisted, then the tokens are issued.                 *)
(***************************************************************************)
Denied(us, ts, error) == Result(error, us, ts, NoAccess, 0, NoId, 0)

(* Mutant: an inactive user with the right password gets its own error.     *)
check_credentials_tells_inactive(us, email, password) ==
    LET user == get_by_email(us, email)
        hashed_password == IF user # NoId THEN us[user].hashed_password ELSE NoHash
        v == verify_password_with_timing_safety(password, hashed_password)
    IN  IF ~v.valid \/ user = NoId
        THEN [outcome |-> InvalidCredentials, user |-> NoId, new_hash |-> NoHash,
              verified |-> v.verified]
        ELSE IF ~us[user].is_active
        THEN [outcome |-> InactiveUser, user |-> NoId, new_hash |-> NoHash,
              verified |-> v.verified]
        ELSE [outcome |-> Ok, user |-> user, new_hash |-> v.new_hash,
              verified |-> v.verified]

(* Mutant: is_active is not looked at once the password verified.          *)
check_credentials_skips_active(us, email, password) ==
    LET user == get_by_email(us, email)
        hashed_password == IF user # NoId THEN us[user].hashed_password ELSE NoHash
        v == verify_password_with_timing_safety(password, hashed_password)
    IN  IF ~v.valid \/ user = NoId
        THEN [outcome |-> InvalidCredentials, user |-> NoId, new_hash |-> NoHash,
              verified |-> v.verified]
        ELSE [outcome |-> Ok, user |-> user, new_hash |-> v.new_hash,
              verified |-> v.verified]

check_credentials(us, email, password) ==
    LET user == get_by_email(us, email)
        hashed_password == IF user # NoId THEN us[user].hashed_password ELSE NoHash
        v == verify_password_with_timing_safety(password, hashed_password)
    IN  IF ~v.valid \/ user = NoId
        THEN [outcome |-> InvalidCredentials, user |-> NoId, new_hash |-> NoHash,
              verified |-> v.verified]
        ELSE IF ~us[user].is_active
        THEN [outcome |-> InvalidCredentials, user |-> NoId, new_hash |-> NoHash,
              verified |-> v.verified]
        ELSE [outcome |-> Ok, user |-> user, new_hash |-> v.new_hash,
              verified |-> v.verified]

(* Mutant: the row stores the secret itself instead of its hash.            *)
issue_tokens_stores_raw(us, ts, t, user) ==
    LET access_token == create_access_token(user, us[user].token_version, t)
        family_id == Fresh(UsedFamilies(ts))
        rt == create_refresh_token(Fresh(UsedRaws(ts)), t)
    IN  Result(Ok, us,
               create_token(ts, user, <<"plain", rt.raw>>, family_id, rt.expires_at),
               access_token, rt.raw, user, 0)

issue_tokens(us, ts, t, user) ==
    LET access_token == create_access_token(user, us[user].token_version, t)
        family_id == Fresh(UsedFamilies(ts))
        rt == create_refresh_token(Fresh(UsedRaws(ts)), t)
    IN  Result(Ok, us,
               create_token(ts, user, rt.token_hash, family_id, rt.expires_at),
               access_token, rt.raw, user, 0)

(* Mutant: the access token is made before the upgraded hash is persisted.  *)
authenticate_signs_before_rehash(us, ts, t, email, password) ==
    LET c == check_credentials(us, email, password)
        r == issue_tokens(us, ts, t, c.user)
    IN  IF c.outcome # Ok
        THEN Denied(us, ts, c.outcome)
        ELSE IF c.new_hash # NoHash
        THEN [r EXCEPT !.users = update_password(us, c.user, c.new_hash)]
        ELSE r

(* Mutant: a login continues a family of the user instead of opening one.   *)
authenticate_reuses_family(us, ts, t, email, password) ==
    LET c == check_credentials(us, email, password)
        r == issue_tokens(IF c.new_hash # NoHash
                          THEN update_password(us, c.user, c.new_hash) ELSE us,
                          ts, t, c.user)
        mine == {i \in 1..Len(ts) : ts[i].user_id = c.user}
    IN  IF c.outcome # Ok
        THEN Denied(us, ts, c.outcome)
        ELSE IF mine = {}
        THEN r
        ELSE [r EXCEPT !.tokens[Len(r.tokens)].family_id =
                           ts[CHOOSE i \in mine : TRUE].family_id]

(* Mutant: the upgraded hash is persisted as soon as the password verified, *)
(* before is_active is looked at.                                           *)
authenticate_rehashes_first(us, ts, t, email, password) ==
    LET user == get_by_email(us, email)
        v == verify_password_with_timing_safety(
                 password, IF user # NoId THEN us[user].hashed_password ELSE NoHash)
        us1 == IF user # NoId /\ v.valid /\ v.new_hash # NoHash
               THEN update_password(us, user, v.new_hash) ELSE us
        c == check_credentials(us, email, password)
    IN  IF c.outcome # Ok
        THEN Denied(us1, ts, c.outcome)
        ELSE issue_tokens(us1, ts, t, c.user)

authenticate(us, ts, t, email, password) ==
    LET c == check_credentials(us, email, password)
    IN  IF c.outcome # Ok
        THEN Denied(us, ts, c.outcome)
        ELSE issue_tokens(IF c.new_hash # NoHash
                          THEN update_password(us, c.user, c.new_hash) ELSE us,
                          ts, t, c.user)

(***************************************************************************)
(* AuthService.refresh_tokens.  new_raw is the secret drawn for the        *)
(* successor; fault names the statement at which the database fails.       *)
(***************************************************************************)
Faults == {"none", "insert", "commit"}

(* Mutant: a replay fails the request but the family is left alone.         *)
replay_only_raises(us, ts, stored) ==
    Result(TokenRevokedError, us, ts, NoAccess, 0, NoId, 0)

(* Mutant: a replay revokes every token of the owner, not only the family.  *)
replay_revokes_owner(us, ts, stored) ==
    Result(TokenRevokedError, us,
           [i \in 1..Len(ts) |->
               IF ts[i].user_id = ts[stored].user_id
               THEN [ts[i] EXCEPT !.is_revoked = TRUE] ELSE ts[i]],
           NoAccess, 0, NoId, 0)

replay_detected(us, ts, stored) ==
    Result(TokenRevokedError, us, revoke_family(ts, ts[stored].family_id),
           NoAccess, 0, NoId, 0)

(* Mutant: the successor is issued without revoking the presented token.    *)
rotate_keeps_presented(us, ts, t, stored, new_raw, fault) ==
    LET user == ts[stored].user_id
        access_token == create_access_token(user, us[user].token_version, t)
        rt == create_refresh_token(new_raw, t)
        ts2 == create_token(ts, user, rt.token_hash,
                            ts[stored].family_id, rt.expires_at)
    IN  IF fault = "none"
        THEN Result(Ok, us, ts2, access_token, 0, user, 0)
        ELSE Result(DatabaseError, us, ts2, NoAccess, 0, NoId, 0)

(* Mutant: the successor opens a family of its own.                         *)
rotate_opens_family(us, ts, t, stored, new_raw, fault) ==
    LET user == ts[stored].user_id
        ts1 == revoke_token(ts, stored)
        access_token == create_access_token(user, us[user].token_version, t)
        rt == create_refresh_token(new_raw, t)
        ts2 == create_token(ts1, user, rt.token_hash,
                            Fresh(UsedFamilies(ts)), rt.expires_at)
    IN  IF fault = "insert"
        THEN Result(DatabaseError, us, ts1, NoAccess, 0, NoId, 0)
        ELSE IF fault = "commit"
        THEN Result(DatabaseError, us, ts2, NoAccess, 0, NoId, 0)
        ELSE Result(Ok, us, ts2, access_token, 0, user, 0)

rotate(us, ts, t, stored, new_raw, fault) ==
    LET user == ts[stored].user_id
        ts1 == revoke_token(ts, stored)
        access_token == create_access_token(user, us[user].token_version, t)
        rt == create_refresh_token(new_raw, t)
        ts2 == create_token(ts1, user, rt.token_hash,
                            ts[stored].family_id, rt.expires_at)
    IN  IF fault = "insert"
        THEN Result(DatabaseError, us, ts1, NoAccess, 0, NoId, 0)
        ELSE IF fault = "commit"
        THEN Result(DatabaseError, us, ts2, NoAccess, 0, NoId, 0)
        ELSE Result(Ok, us, ts2, access_token, 0, user, 0)

(* Mutant: a token with no stored record is answered like a replay.         *)
refresh_tokens_unknown_is_replay(us, ts, t, refresh_token, new_raw, fault) ==
    LET stored == get_by_hash(ts, hash_token(refresh_token))
    IN  IF stored = NoId
        THEN Denied(us, ts, TokenRevokedError)
        ELSE IF ts[stored].is_revoked
        THEN replay_detected(us, ts, stored)
        ELSE IF is_expired(ts[stored], t)
        THEN Denied(us, ts, TokenError("Refresh token expired"))
        ELSE IF ~user_present(us, ts[stored].user_id)
                \/ ~us[ts[stored].user_id].is_active
        THEN Denied(us, ts, TokenError("User not found or inactive"))
        ELSE rotate(us, ts, t, stored, new_raw, fault)

(* Mutant: the owner of the token is not looked at before the rotation.     *)
refresh_tokens_serves_inactive(us, ts, t, refresh_token, new_raw, fault) ==
    LET stored == get_by_hash(ts, hash_token(refresh_token))
    IN  IF stored = NoId
        THEN Denied(us, ts, TokenError("Invalid refresh token"))
        ELSE IF ts[stored].is_revoked
        THEN replay_detected(us, ts, stored)
        ELSE IF is_expired(ts[stored], t)
        THEN Denied(us, ts, TokenError("Refresh token expired"))
        ELSE IF ~user_present(us, ts[stored].user_id)
        THEN Denied(us, ts, TokenError("User not found or inactive"))
        ELSE rotate(us, ts, t, stored, new_raw, fault)

(* Mutant: the expiry of the stored token is looked at before its flag.     *)
refresh_tokens_expiry_first(us, ts, t, refresh_token, new_raw, fault) ==
    LET stored == get_by_hash(ts, hash_token(refresh_token))
    IN  IF stored = NoId
        THEN Denied(us, ts, TokenError("Invalid refresh token"))
        ELSE IF is_expired(ts[stored], t)
        THEN Denied(us, ts, TokenError("Refresh token expired"))
        ELSE IF ts[stored].is_revoked
        THEN replay_detected(us, ts, stored)
        ELSE IF ~user_present(us, ts[stored].user_id)
                \/ ~us[ts[stored].user_id].is_active
        THEN Denied(us, ts, TokenError("User not found or inactive"))
        ELSE rotate(us, ts, t, stored, new_raw, fault)

refresh_tokens(us, ts, t, refresh_token, new_raw, fault) ==
    LET stored == get_by_hash(ts, hash_token(refresh_token))
    IN  IF stored = NoId
        THEN Denied(us, ts, TokenError("Invalid refresh token"))
        ELSE IF ts[stored].is_revoked
        THEN replay_detected(us, ts, stored)
        ELSE IF is_expired(ts[stored], t)
        THEN Denied(us, ts, TokenError("Refresh token expired"))
        ELSE IF ~user_present(us, ts[stored].user_id)
                \/ ~us[ts[stored].user_id].is_active
        THEN Denied(us, ts, TokenError("User not found or inactive"))
        ELSE rotate(us, ts, t, stored, new_raw, fault)

(***************************************************************************)
(* AuthService.logout and logout_all.                                      *)
(***************************************************************************)
(* Mutant: logout of an already revoked token is handled like a replay.     *)
logout_revokes_family(us, ts, refresh_token) ==
    LET stored == get_by_hash(ts, hash_token(refresh_token))
    IN  IF stored = NoId
        THEN Result(Ok, us, ts, NoAccess, 0, NoId, 0)
        ELSE IF ts[stored].is_revoked
        THEN Result(Ok, us, revoke_family(ts, ts[stored].family_id), NoAccess, 0, NoId, 0)
        ELSE Result(Ok, us, revoke_token(ts, stored), NoAccess, 0, NoId, 0)

(* Mutant: logout ends every session of the owner of the presented token.   *)
logout_revokes_owner(us, ts, refresh_token) ==
    LET stored == get_by_hash(ts, hash_token(refresh_token))
    IN  IF stored # NoId /\ ~ts[stored].is_revoked
        THEN Result(Ok, us,
                    [i \in 1..Len(ts) |->
                        IF ts[i].user_id = ts[stored].user_id
                        THEN [ts[i] EXCEPT !.is_revoked = TRUE] ELSE ts[i]],
                    NoAccess, 0, NoId, 0)
        ELSE Result(Ok, us, ts, NoAccess, 0, NoId, 0)

logout(us, ts, refresh_token) ==
    LET stored == get_by_hash(ts, hash_token(refresh_token))
    IN  IF stored # NoId /\ ~ts[stored].is_revoked
        THEN Result(Ok, us, revoke_token(ts, stored), NoAccess, 0, NoId, 0)
        ELSE Result(Ok, us, ts, NoAccess, 0, NoId, 0)

(* Mutant: the count is taken after the tokens were revoked.                *)
logout_all_counts_late(us, ts, t, user) ==
    LET us1 == increment_token_version(us, user)
        rv == revoke_all_user_tokens(ts, user, t)
    IN  Result(Ok, us1, rv.tokens, NoAccess, 0, user,
               revoke_all_user_tokens(rv.tokens, user, t).count)

(* Mutant: the refresh tokens are revoked but token_version stays.          *)
logout_all_keeps_version(us, ts, t, user) ==
    LET rv == revoke_all_user_tokens(ts, user, t)
    IN  Result(Ok, us, rv.tokens, NoAccess, 0, user, rv.count)

(* Mutant: the rows of the user are deleted instead of being revoked.        *)
logout_all_deletes_rows(us, ts, t, user) ==
    LET us1 == increment_token_version(us, user)
        rv == revoke_all_user_tokens(ts, user, t)
        Kept(row) == row.user_id # user
    IN  Result(Ok, us1, SelectSeq(ts, Kept), NoAccess, 0, user, rv.count)

logout_all(us, ts, t, user) ==
    LET us1 == increment_token_version(us, user)
        rv == revoke_all_user_tokens(ts, user, t)
    IN  Result(Ok, us1, rv.tokens, NoAccess, 0, user, rv.count)

(***************************************************************************)
(* UserService.                                                            *)
(***************************************************************************)
create_user(us, ts, email, password) ==
    IF email_exists(us, email)
    THEN Result(EmailAlreadyExists, us, ts, NoAccess, 0, NoId, 0)
    ELSE LET id == Fresh(DOMAIN us)
         IN  Result(Ok, repo_create_user(us, id, email, hash_password(password)),
                    ts, NoAccess, 0, id, 0)

(* The email check of UserService.admin_update_user.                        *)
admin_update_check(us, user_id, email) ==
    IF ~user_present(us, user_id) THEN UserNotFound
    ELSE IF get_by_email(us, email) # NoId /\ get_by_email(us, email) # user_id
    THEN EmailAlreadyExists
    ELSE Ok

(* UserService.admin_delete_user: a hard delete of the users row.           *)
admin_delete_user(us, ts, user_id) ==
    IF ~user_present(us, user_id)
    THEN Result(UserNotFound, us, ts, NoAccess, 0, NoId, 0)
    ELSE Result(Ok, [u \in DOMAIN us \ {user_id} |-> us[u]], ts, NoAccess, 0, user_id, 0)

(* Mutant: changing the password also revokes the user's refresh tokens.    *)
change_password_revokes_tokens(us, ts, user, current_password, new_password) ==
    IF ~verify_password(current_password, us[user].hashed_password).valid
    THEN Result(InvalidCredentials, us, ts, NoAccess, 0, NoId, 0)
    ELSE Result(Ok, update_password(us, user, hash_password(new_password)),
                [i \in 1..Len(ts) |->
                    IF ts[i].user_id = user
                    THEN [ts[i] EXCEPT !.is_revoked = TRUE] ELSE ts[i]],
                NoAccess, 0, user, 0)

change_password(us, ts, user, current_password, new_password) ==
    IF ~verify_password(current_password, us[user].hashed_password).valid
    THEN Result(InvalidCredentials, us, ts, NoAccess, 0, NoId, 0)
    ELSE Result(Ok, update_password(us, user, hash_password(new_password)),
                ts, NoAccess, 0, user, 0)

deactivate_user(us, ts, user) ==
    Result(Ok, repo_update_is_active(us, user, FALSE), ts, NoAccess, 0, user, 0)

(***************************************************************************)
(* State.  users and tokens are the committed tables, now the clock,       *)
(* access the unexpired access tokens the clients hold.  reqs holds the    *)
(* requests in flight whose statements interleave with other requests.     *)
(* last is the observation of one request: any request may be the observed *)
(* one; last then records its inputs, the tables it started from, its      *)
(* outcome and what it returned, and the run ends there.                   *)
(***************************************************************************)
UnknownRaw == 0

(* The refresh cookies a client may present: every secret issued so far    *)
(* and one value that was never issued.                                    *)
Presentable(ts) == UsedRaws(ts) \cup {UnknownRaw}

(* What the route does to the refresh cookie of its response: login sets    *)
(* it to the raw token, logout and logout-all clear it, the others leave it *)
(* alone.                                                                   *)
NoCookie == [set |-> FALSE, cleared |-> FALSE, value |-> UnknownRaw]

response_cookie(op, r) ==
    IF r.outcome # Ok THEN NoCookie
    ELSE IF op = "login"
    THEN [set |-> TRUE, cleared |-> FALSE, value |-> r.raw_refresh]
    ELSE IF op \in {"logout", "logout_all"}
    THEN [set |-> FALSE, cleared |-> TRUE, value |-> UnknownRaw]
    ELSE NoCookie

Last(op, email, password, raw, token, r) ==
    [op |-> op, email |-> email, password |-> password, raw |-> raw,
     token |-> token, users |-> users, tokens |-> tokens,
     outcome |-> r.outcome, access_token |-> r.access_token,
     raw_refresh |-> r.raw_refresh, user |-> r.user, ret |-> r.ret,
     cookie |-> response_cookie(op, r)]

NoLast ==
    [op |-> "none", email |-> "", password |-> "", raw |-> 0,
     token |-> NoAccess, users |-> << >>, tokens |-> << >>,
     outcome |-> Ok, access_token |-> NoAccess,
     raw_refresh |-> 0, user |-> NoId, ret |-> 0, cookie |-> NoCookie]

NoRow ==
    [user_id |-> NoId, token_hash |-> hash_token(UnknownRaw), family_id |-> 0,
     expires_at |-> 0, is_revoked |-> FALSE]

IdleReq ==
    [pc |-> "idle", raw |-> 0, stored |-> NoId, row |-> NoRow, ver |-> 0,
     new_raw |-> 0, outcome |-> Ok,
     op |-> "none", email |-> "", password |-> "", user |-> NoId]

InFlight(s) == reqs[s].pc \notin {"idle", "done"}

AllIdle == \A s \in Slots : ~InFlight(s)

WithinBounds(r) ==
    /\ Len(r.tokens) > Len(tokens) => Len(r.tokens) <= MaxTokens
    /\ \A u \in DOMAIN r.users : r.users[u].token_version <= MaxVersion

(* The database the service starts on holds one account registered under   *)
(* older hashing parameters; every other account is registered later.      *)
LegacyUsers ==
    [u \in {1} |->
        [email |-> "alice@example.com",
         hashed_password |-> [hash_password("Passw0rd!") EXCEPT !.outdated = TRUE],
         is_active |-> TRUE, token_version |-> 0]]

Init ==
    /\ users = LegacyUsers
    /\ tokens = << >>
    /\ now = 0
    /\ access = {}
    /\ last = NoLast
    /\ reqs = [s \in Slots |-> IdleReq]

(* A request that runs alone: the handler on a session, then the session's  *)
(* end; the access token it returns joins those the clients hold.           *)
Serve(op, email, password, raw, token, r) ==
    /\ last = NoLast
    /\ AllIdle
    /\ WithinBounds(r)
    /\ users' = session_end(users, r.users, r.outcome)
    /\ tokens' = session_end(tokens, r.tokens, r.outcome)
    /\ access' = IF r.access_token # NoAccess
                 THEN access \cup {r.access_token} ELSE access
    /\ \E observed \in BOOLEAN :
          last' = IF observed THEN Last(op, email, password, raw, token, r) ELSE last
    /\ UNCHANGED <<now, reqs>>

CreateUser(email, password) ==
    /\ Cardinality(DOMAIN users) < Cardinality(UserIds)
    /\ Serve("create_user", email, password, 0, NoAccess,
             create_user(users, tokens, email, password))

Login(email, password) ==
    Serve("login", email, password, 0, NoAccess,
          authenticate(users, tokens, now, email, password))

Refresh(raw, fault) ==
    Serve("refresh", "", "", raw, NoAccess,
          refresh_tokens(users, tokens, now, raw, Fresh(UsedRaws(tokens)), fault))

Logout(raw) ==
    Serve("logout", "", "", raw, NoAccess, logout(users, tokens, raw))

LogoutAll(token) ==
    Serve("logout_all", "", "", 0, token,
          IF get_current_active_user(users, token, now) = Ok
          THEN logout_all(users, tokens, now, token.sub)
          ELSE Denied(users, tokens, get_current_active_user(users, token, now)))

ChangePassword(token, current_password, new_password) ==
    Serve("change_password", "", current_password, 0, token,
          IF get_current_active_user(users, token, now) = Ok
          THEN change_password(users, tokens, token.sub, current_password, new_password)
          ELSE Denied(users, tokens, get_current_active_user(users, token, now)))

DeactivateUser(user) ==
    /\ user \in DOMAIN users
    /\ users[user].is_active
    /\ Serve("deactivate_user", "", "", 0, NoAccess,
             deactivate_user(users, tokens, user))

DeleteUser(user) ==
    /\ user \in DOMAIN users
    /\ Serve("delete_user", "", "", 0, NoAccess,
             admin_delete_user(users, tokens, user))

(* Time passes; an access token past its exp is dropped by its holder.      *)
Tick ==
    /\ last = NoLast
    /\ AllIdle
    /\ now < MaxTime
    /\ now' = now + 1
    /\ access' = {a \in access : a.exp > now + 1}
    /\ UNCHANGED <<users, tokens, last, reqs>>

(***************************************************************************)
(* refresh_tokens statement by statement, for requests whose statements    *)
(* interleave.  Each request has its own session on a READ COMMITTED       *)
(* database: it reads committed rows, its own writes stay private until    *)
(* its commit, and an UPDATE of a row waits while another session holds an *)
(* uncommitted UPDATE of that row.                                         *)
(***************************************************************************)
HoldsRow(s, i) == reqs[s].pc \in {"revoked", "inserted"} /\ reqs[s].stored = i

RowFree(s, i) == \A o \in Slots \ {s} : ~HoldsRow(o, i)

Pending(s) == IF reqs[s].pc = "inserted" THEN {reqs[s].new_raw} ELSE {}

Done(s, outcome) == [reqs EXCEPT ![s].pc = "done", ![s].outcome = outcome]

(* get_by_hash, and the failure when no row stores the hash.                *)
RefreshLoad(s, raw) ==
    /\ last = NoLast
    /\ reqs[s].pc = "idle"
    /\ Len(tokens) < MaxTokens
    /\ LET stored == get_by_hash(tokens, hash_token(raw))
       IN  reqs' = IF stored = NoId
                   THEN [reqs EXCEPT ![s].pc = "done", ![s].raw = raw,
                                     ![s].outcome = TokenError("Invalid refresh token")]
                   ELSE [reqs EXCEPT ![s].pc = "loaded", ![s].raw = raw,
                                     ![s].stored = stored, ![s].row = tokens[stored]]
    /\ UNCHANGED <<users, tokens, now, access, last>>

(* The checks on the loaded row and on its user, up to the rotation.        *)
RefreshCheck(s) ==
    /\ reqs[s].pc = "loaded"
    /\ LET row == reqs[s].row
       IN  IF row.is_revoked
           THEN /\ \A i \in FamilyRowsOf(tokens, row.family_id) : RowFree(s, i)
                /\ tokens' = session_end(tokens, revoke_family(tokens, row.family_id),
                                         TokenRevokedError)
                /\ reqs' = Done(s, TokenRevokedError)
           ELSE /\ tokens' = tokens
                /\ reqs' =
                     IF is_expired(row, now)
                     THEN Done(s, TokenError("Refresh token expired"))
                     ELSE IF ~user_present(users, row.user_id)
                             \/ ~users[row.user_id].is_active
                     THEN Done(s, TokenError("User not found or inactive"))
                     ELSE [reqs EXCEPT ![s].pc = "checked",
                                       ![s].ver = users[row.user_id].token_version]
    /\ UNCHANGED <<users, now, access, last>>

(* revoke_token: the UPDATE of the presented row, flushed.                  *)
RefreshRevoke(s) ==
    /\ reqs[s].pc = "checked"
    /\ RowFree(s, reqs[s].stored)
    /\ reqs' = [reqs EXCEPT ![s].pc = "revoked"]
    /\ UNCHANGED <<users, tokens, now, access, last>>

(* create_refresh_token and create_token: the INSERT of the successor.      *)
RefreshInsert(s) ==
    /\ reqs[s].pc = "revoked"
    /\ reqs' = [reqs EXCEPT
                  ![s].pc = "inserted",
                  ![s].new_raw = Fresh(UsedRaws(tokens)
                                       \cup UNION {Pending(o) : o \in Slots})]
    /\ UNCHANGED <<users, tokens, now, access, last>>

(* The handler returns and the session commits its UPDATE and its INSERT.   *)
RefreshCommit(s) ==
    /\ reqs[s].pc = "inserted"
    /\ LET row == reqs[s].row
           rt == create_refresh_token(reqs[s].new_raw, now)
       IN  /\ tokens' = session_end(tokens,
                           create_token(revoke_token(tokens, reqs[s].stored),
                                        row.user_id, rt.token_hash,
                                        row.family_id, rt.expires_at), Ok)
           /\ access' = access \cup {create_access_token(row.user_id, reqs[s].ver, now)}
    /\ reqs' = Done(s, Ok)
    /\ UNCHANGED <<users, now, last>>

(***************************************************************************)
(* create_user, admin_create_user and admin_update_user statement by       *)
(* statement, for requests whose statements interleave.  The users table   *)
(* has a unique constraint on email: an INSERT or UPDATE that would give a *)
(* second committed row the email fails in the database, and waits while   *)
(* another session holds an uncommitted row with that email.               *)
(***************************************************************************)
UserOps == {"create_user", "admin_create_user", "admin_update_user"}

HoldsEmail(s, email) ==
    reqs[s].pc = "written" /\ reqs[s].op \in UserOps /\ reqs[s].email = email

(* The rows other than own that have the email, as committed.               *)
EmailTaken(us, own, email) == \E u \in DOMAIN us \ {own} : us[u].email = email

(* The email check: email_exists, or get_by_id and get_by_email.            *)
UserCheck(s, op, user, email, password) ==
    /\ last = NoLast
    /\ reqs[s].pc \in {"idle", "done"}
    /\ op = "admin_update_user" => user \in UserIds /\ password = ""
    /\ op # "admin_update_user" => user = NoId
    /\ LET seen == IF op = "admin_update_user"
                   THEN admin_update_check(users, user, email)
                   ELSE IF email_exists(users, email) THEN EmailAlreadyExists ELSE Ok
           r == [IdleReq EXCEPT !.op = op, !.email = email,
                                !.password = password, !.user = user]
       IN  reqs' = [reqs EXCEPT ![s] = IF seen = Ok
                                       THEN [r EXCEPT !.pc = "checked"]
                                       ELSE [r EXCEPT !.pc = "done", !.outcome = seen]]
    /\ UNCHANGED <<users, tokens, now, access, last>>

(* The flush of the INSERT or UPDATE, where the constraint is enforced.     *)
UserWrite(s) ==
    /\ reqs[s].pc = "checked"
    /\ reqs[s].op \in UserOps
    /\ \A o \in Slots \ {s} : ~HoldsEmail(o, reqs[s].email)
    /\ reqs' = IF EmailTaken(users, reqs[s].user, reqs[s].email)
               THEN Done(s, DatabaseError)
               ELSE [reqs EXCEPT ![s].pc = "written"]
    /\ UNCHANGED <<users, tokens, now, access, last>>

(* The handler returns and the session commits the row.                     *)
UserCommit(s) ==
    /\ reqs[s].pc = "written"
    /\ reqs[s].op \in UserOps
    /\ LET r == reqs[s]
           work == IF r.op = "admin_update_user"
                   THEN IF user_present(users, r.user)
                        THEN [users EXCEPT ![r.user].email = r.email] ELSE users
                   ELSE repo_create_user(users, Fresh(DOMAIN users), r.email,
                                         hash_password(r.password))
       IN  users' = session_end(users, work, Ok)
    /\ reqs' = Done(s, Ok)
    /\ UNCHANGED <<tokens, now, access, last>>

Next ==
    \/ \E e \in Emails, p \in Passwords : CreateUser(e, p)
    \/ \E e \in Emails, p \in Passwords : Login(e, p)
    \/ \E raw \in Presentable(tokens), fault \in Faults : Refresh(raw, fault)
    \/ \E raw \in Presentable(tokens) : Logout(raw)
    \/ \E a \in access : LogoutAll(a)
    \/ \E a \in access, p \in Passwords, q \in Passwords : ChangePassword(a, p, q)
    \/ \E u \in UserIds : DeactivateUser(u)
    \/ Tick

Spec == Init /\ [][Next]_vars

(* The service with its administrator deleting accounts; no account is      *)
(* registered meanwhile, so the id of a deleted account is not given again. *)
NextAdmin ==
    \/ \E e \in Emails, p \in Passwords : Login(e, p)
    \/ \E raw \in Presentable(tokens), fault \in Faults : Refresh(raw, fault)
    \/ \E raw \in Presentable(tokens) : Logout(raw)
    \/ \E a \in access : LogoutAll(a)
    \/ \E a \in access, p \in Passwords, q \in Passwords : ChangePassword(a, p, q)
    \/ \E u \in UserIds : DeactivateUser(u)
    \/ \E u \in UserIds : DeleteUser(u)
    \/ Tick

SpecAdmin == Init /\ [][NextAdmin]_vars

(* Registrations and administrator updates that interleave.                 *)
NextUsers ==
    \/ \E s \in Slots, e \in Emails, p \in Passwords :
          UserCheck(s, "create_user", NoId, e, p)
    \/ \E s \in Slots, e \in Emails, p \in Passwords :
          UserCheck(s, "admin_create_user", NoId, e, p)
    \/ \E s \in Slots, u \in UserIds, e \in Emails :
          UserCheck(s, "admin_update_user", u, e, "")
    \/ \E s \in Slots : UserWrite(s)
    \/ \E s \in Slots : UserCommit(s)

SpecUsers == Init /\ [][NextUsers]_vars

(* Requests that interleave: two refresh requests run statement by          *)
(* statement among logins, logouts, deactivations and the clock.            *)
NextConc ==
    \/ \E e \in Emails, p \in Passwords : Login(e, p)
    \/ \E raw \in Presentable(tokens) : Logout(raw)
    \/ \E u \in UserIds : DeactivateUser(u)
    \/ Tick
    \/ \E s \in Slots, raw \in Presentable(tokens) : RefreshLoad(s, raw)
    \/ \E s \in Slots : RefreshCheck(s)
    \/ \E s \in Slots : RefreshRevoke(s)
    \/ \E s \in Slots : RefreshInsert(s)
    \/ \E s \in Slots : RefreshCommit(s)

SpecConc == Init /\ [][NextConc]_vars

(* logout_all served in one piece while refresh requests may be under way:  *)
(* its UPDATE of the user's live rows runs when no other session holds an   *)
(* uncommitted UPDATE of one of them, and its session commits at once.      *)
LogoutAllDuringRefresh(token) ==
    /\ last = NoLast
    /\ LET auth == get_current_active_user(users, token, now)
           r == IF auth = Ok THEN logout_all(users, tokens, now, token.sub)
                ELSE Denied(users, tokens, auth)
       IN  /\ WithinBounds(r)
           /\ auth = Ok =>
                 \A i \in LiveOfUser(tokens, token.sub, now), s \in Slots :
                     ~HoldsRow(s, i)
           /\ users' = session_end(users, r.users, r.outcome)
           /\ tokens' = session_end(tokens, r.tokens, r.outcome)
           /\ \E observed \in BOOLEAN :
                 last' = IF observed
                         THEN Last("logout_all", "", "", 0, token, r) ELSE last
    /\ UNCHANGED <<now, access, reqs>>

NextRevoke ==
    \/ \E e \in Emails, p \in Passwords : Login(e, p)
    \/ Tick
    \/ \E token \in access : LogoutAllDuringRefresh(token)
    \/ \E s \in Slots, raw \in Presentable(tokens) : RefreshLoad(s, raw)
    \/ \E s \in Slots : RefreshCheck(s)
    \/ \E s \in Slots : RefreshRevoke(s)
    \/ \E s \in Slots : RefreshInsert(s)
    \/ \E s \in Slots : RefreshCommit(s)

SpecRevoke == Init /\ [][NextRevoke]_vars

(***************************************************************************)
(* Vocabulary of the properties.                                           *)
(***************************************************************************)
Rows(ts) == 1..Len(ts)

IsLive(row, t) == row.is_revoked = FALSE /\ row.expires_at > t

FamilyRows(ts, f) == {i \in Rows(ts) : ts[i].family_id = f}

LiveFamilyRows(ts, f, t) == {i \in FamilyRows(ts, f) : IsLive(ts[i], t)}

UserRows(ts, u) == {i \in Rows(ts) : ts[i].user_id = u}

LiveUserRows(ts, u, t) == {i \in UserRows(ts, u) : IsLive(ts[i], t)}

(* The rows of the table that store the hash of the secret raw.             *)
RowsOfRaw(ts, raw) == {i \in Rows(ts) : ts[i].token_hash = hash_token(raw)}

(* The secret whose hash row i stores.                                      *)
RawOfRow(ts, i) == CHOOSE raw \in 0..Len(ts) : ts[i].token_hash = hash_token(raw)

(* The outcome of a refresh request presenting raw, run now.                *)
RefreshOutcome(raw) ==
    refresh_tokens(users, tokens, now, raw, Fresh(UsedRaws(tokens)), "none").outcome

(* C1: whenever refresh_tokens succeeds, afterwards the presented token's   *)
(* record is revoked and the family of the presented token holds exactly    *)
(* one live token, which this call created.                                 *)
C1_RotationInvariant ==
    (last.op = "refresh" /\ last.outcome = Ok) =>
        /\ RowsOfRaw(last.tokens, last.raw) # {}
        /\ \A i \in RowsOfRaw(last.tokens, last.raw) :
            /\ tokens[i].is_revoked
            /\ LiveFamilyRows(tokens, tokens[i].family_id, now) = {Len(tokens)}
            /\ Len(tokens) = Len(last.tokens) + 1

C1_Witness ==
    /\ last.op = "refresh"
    /\ last.outcome = Ok
    /\ \E i \in RowsOfRaw(last.tokens, last.raw) :
          Cardinality(FamilyRows(tokens, tokens[i].family_id)) >= 2

C4_OneLivePerFamily ==
    \A i \in Rows(tokens) :
        Cardinality(LiveFamilyRows(tokens, tokens[i].family_id, now)) <= 1

C4_Witness ==
    \E i \in Rows(tokens) :
        /\ Cardinality(FamilyRows(tokens, tokens[i].family_id)) >= 2
        /\ Cardinality(LiveFamilyRows(tokens, tokens[i].family_id, now)) = 1

(* The accounts of table us that email and password are the credentials of. *)
AccountsOf(us, email, password) ==
    {u \in DOMAIN us : us[u].email = email /\ us[u].hashed_password.pw = password}

(* C5: for every registered active user, login with the correct email and   *)
(* password succeeds and returns a raw refresh token whose hash is stored   *)
(* in a live record owned by that user.                                     *)
C5_LoginIssuesLiveToken ==
    \A u \in AccountsOf(last.users, last.email, last.password) :
        (last.op = "login" /\ last.users[u].is_active) =>
            /\ last.outcome = Ok
            /\ last.user = u
            /\ RowsOfRaw(tokens, last.raw_refresh) # {}
            /\ \A i \in RowsOfRaw(tokens, last.raw_refresh) :
                  IsLive(tokens[i], now) /\ tokens[i].user_id = u

C5_Witness ==
    /\ last.op = "login"
    /\ last.outcome = Ok
    /\ \E i \in RowsOfRaw(tokens, last.raw_refresh) : tokens[i].user_id = last.user

(* C6: login fails with the same error kind, message and status 401 when    *)
(* the email is unknown, when the password is wrong and when the password   *)
(* is right but the user is inactive.                                       *)
C6_UniformLoginFailure ==
    last.op = "login" =>
        LET known == {u \in DOMAIN last.users : last.users[u].email = last.email}
            right == AccountsOf(last.users, last.email, last.password)
            failing == \/ known = {}
                       \/ right = {}
                       \/ \E u \in right : ~last.users[u].is_active
        IN  /\ failing => last.outcome # Ok
            /\ last.outcome # Ok =>
                  last.outcome = [type |-> "InvalidCredentials",
                                  message |-> "Invalid email or password",
                                  status |-> 401]

C6_Witness ==
    /\ last.op = "login"
    /\ last.outcome.type = "InvalidCredentials"
    /\ \E u \in AccountsOf(last.users, last.email, last.password) :
          ~last.users[u].is_active

(* C7: logout succeeds silently; a second logout with the same token leaves *)
(* the state as the first left it; logout of an already revoked token or of *)
(* a token with no stored record changes nothing.                           *)
C7_LogoutIdempotent ==
    last.op = "logout" =>
        /\ last.outcome = Ok
        /\ users = last.users
        /\ logout(users, tokens, last.raw).outcome = Ok
        /\ logout(users, tokens, last.raw).tokens = tokens
        /\ logout(users, tokens, last.raw).users = users
        /\ (\A i \in RowsOfRaw(last.tokens, last.raw) : last.tokens[i].is_revoked)
              => tokens = last.tokens

C7_Witness ==
    /\ last.op = "logout"
    /\ last.outcome = Ok
    /\ \E i \in RowsOfRaw(last.tokens, last.raw) :
          /\ last.tokens[i].is_revoked
          /\ LiveFamilyRows(tokens, tokens[i].family_id, now) # {}

(* C8: for a user with exactly N live refresh tokens logout_all returns N,  *)
(* afterwards the user has no live refresh token, and refresh with any      *)
(* refresh token issued to the user before the call fails.                  *)
C8_LogoutAllCount ==
    (last.op = "logout_all" /\ last.outcome = Ok) =>
        /\ last.ret = Cardinality(LiveUserRows(last.tokens, last.token.sub, now))
        /\ LiveUserRows(tokens, last.token.sub, now) = {}
        /\ \A i \in UserRows(last.tokens, last.token.sub) :
              RefreshOutcome(RawOfRow(tokens, i)) # Ok

C8_Witness ==
    /\ last.op = "logout_all"
    /\ last.outcome = Ok
    /\ last.ret >= 1
    /\ last.ret < Cardinality(UserRows(last.tokens, last.token.sub))

SameLiveTokenTwice ==
    /\ reqs[1].pc = "done"
    /\ reqs[2].pc = "done"
    /\ reqs[1].stored # NoId
    /\ reqs[1].stored = reqs[2].stored
    /\ \A s \in Slots : /\ ~reqs[s].row.is_revoked
                         /\ reqs[s].outcome \in {Ok, TokenRevokedError}

C3_ExactlyOneRefreshWins ==
    SameLiveTokenTwice =>
        \E s \in Slots :
            /\ reqs[s].outcome = Ok
            /\ \A o \in Slots \ {s} : reqs[o].outcome = TokenRevokedError

(* The refresh cookie the client holds once the observed response arrived.  *)
HeldCookie ==
    IF last.cookie.set THEN last.cookie.value
    ELSE IF last.cookie.cleared THEN UnknownRaw
    ELSE last.raw

(* C11: after a successful refresh the client's refresh cookie holds the    *)
(* raw value of the successor, so the refresh that presents the cookie next *)
(* succeeds and no replay is detected.                                      *)
C11_CookieCarriesSuccessor ==
    (last.op = "refresh" /\ last.outcome = Ok) =>
        /\ RowsOfRaw(tokens, HeldCookie) = {Len(tokens)}
        /\ RefreshOutcome(HeldCookie) = Ok

(* C12: refresh with a raw token whose hash no record stores fails with    *)
(* the invalid-token kind (TokenError, 401) and changes no state.           *)
C12_UnknownTokenRejected ==
    (last.op = "refresh" /\ RowsOfRaw(last.tokens, last.raw) = {}) =>
        /\ last.outcome.type = "TokenError"
        /\ last.outcome.status = 401
        /\ last.access_token = NoAccess
        /\ tokens = last.tokens
        /\ users = last.users

C12_Witness ==
    /\ last.op = "refresh"
    /\ RowsOfRaw(last.tokens, last.raw) = {}
    /\ last.outcome.type = "TokenError"
    /\ \E i \in Rows(tokens) : IsLive(tokens[i], now)

(* The presented token of the observed request is stored, not revoked and   *)
(* past its expires_at.                                                     *)
PresentedExpired ==
    /\ last.op = "refresh"
    /\ RowsOfRaw(last.tokens, last.raw) # {}
    /\ \A i \in RowsOfRaw(last.tokens, last.raw) :
          ~last.tokens[i].is_revoked /\ last.tokens[i].expires_at <= now

(* C13: refresh with a stored, not revoked, expired token fails with an     *)
(* error kind of its own, distinct from the kind of an unknown token and    *)
(* from the kind of a replay, and leaves the token and its family as they   *)
(* were.                                                                    *)
C13_ExpiredKindDistinct ==
    PresentedExpired =>
        /\ last.outcome # Ok
        /\ last.outcome.type # RefreshOutcome(UnknownRaw).type
        /\ last.outcome.type # TokenRevokedError.type
        /\ tokens = last.tokens

(* C14: refresh with a live token whose user is absent or inactive fails    *)
(* and rotates nothing: the presented token stays not revoked, no successor *)
(* is created and no access token is issued.                                *)
C14_InactiveOwnerNoRotation ==
    \A i \in RowsOfRaw(last.tokens, last.raw) :
        ( /\ last.op = "refresh"
          /\ IsLive(last.tokens[i], now)
          /\ \/ ~user_present(last.users, last.tokens[i].user_id)
             \/ ~last.users[last.tokens[i].user_id].is_active ) =>
            /\ last.outcome # Ok
            /\ last.access_token = NoAccess
            /\ tokens = last.tokens
            /\ ~tokens[i].is_revoked

C14_Witness ==
    /\ last.op = "refresh"
    /\ last.outcome # Ok
    /\ \E i \in RowsOfRaw(last.tokens, last.raw) :
          /\ IsLive(last.tokens[i], now)
          /\ ~user_present(last.users, last.tokens[i].user_id)

(* C15: token_version never decreases and changes only through logout_all  *)
(* and change_password; login, refresh and logout leave every user's        *)
(* token_version as it was, a login that persists an upgraded hash          *)
(* included.                                                                *)
C15_VersionChangesOnlyOnRevocation ==
    \A u \in DOMAIN last.users :
        /\ users[u].token_version >= last.users[u].token_version
        /\ last.op \notin {"logout_all", "change_password"} =>
              users[u].token_version = last.users[u].token_version

(* C16: a revoked refresh-token record stays revoked and no record is ever  *)
(* deleted, whatever request is served next: the table after the request   *)
(* keeps every record the table before it held, revoked ones revoked.       *)
C16_RevocationTerminal ==
    \A i \in Rows(last.tokens) :
        /\ i \in Rows(tokens)
        /\ tokens[i].token_hash = last.tokens[i].token_hash
        /\ last.tokens[i].is_revoked => tokens[i].is_revoked

C16_Witness ==
    /\ last.op \in {"login", "refresh", "logout", "logout_all", "change_password"}
    /\ last.outcome = Ok
    /\ \E i \in Rows(last.tokens) : last.tokens[i].is_revoked /\ tokens[i].is_revoked

(* C17: a login creates its token in a family no existing token is in; a    *)
(* successful refresh creates the successor in the family and for the user  *)
(* of the presented token; all tokens of one family belong to one user.     *)
C17_FamilyDiscipline ==
    /\ (last.op = "login" /\ last.outcome = Ok) =>
          /\ Len(tokens) = Len(last.tokens) + 1
          /\ \A i \in Rows(last.tokens) :
                tokens[i].family_id # tokens[Len(tokens)].family_id
    /\ (last.op = "refresh" /\ last.outcome = Ok) =>
          /\ Len(tokens) = Len(last.tokens) + 1
          /\ \A i \in RowsOfRaw(last.tokens, last.raw) :
                /\ tokens[Len(tokens)].family_id = tokens[i].family_id
                /\ tokens[Len(tokens)].user_id = tokens[i].user_id
    /\ \A i, j \in Rows(tokens) :
          tokens[i].family_id = tokens[j].family_id =>
              tokens[i].user_id = tokens[j].user_id

C17_Witness ==
    /\ last.op = "refresh"
    /\ last.outcome = Ok
    /\ RowsOfRaw(last.tokens, last.raw) # {}
    /\ \E u \in DOMAIN users : u # last.user

(* C18: the access token that login or refresh returns carries the user's   *)
(* token_version as stored when the operation completes, so it is accepted  *)
(* when presented right away.                                               *)
C18_ReturnedTokenCurrent ==
    (last.op \in {"login", "refresh"} /\ last.outcome = Ok) =>
        /\ last.access_token.sub = last.user
        /\ last.access_token.ver = users[last.user].token_version
        /\ check_token_version(users, last.access_token, now) = Ok

C18_Witness ==
    /\ last.op = "login"
    /\ last.outcome = Ok
    /\ users[last.user].token_version # last.users[last.user].token_version

(* The passwords a caller may try: those of the accounts and the one the    *)
(* dummy hash was computed from.                                            *)
TriedPasswords == Passwords \cup {DUMMY_HASH.pw}

(* C19: without a stored hash verify_password_with_timing_safety runs the   *)
(* hasher once, against the dummy hash, and answers (false, none) for every *)
(* password; with a stored hash it runs the hasher once, against that hash; *)
(* so a login runs the hasher once whether or not the email is registered.  *)
C19_OneVerificationPerLogin ==
    /\ \A p \in TriedPasswords :
          verify_password_with_timing_safety(p, NoHash)
              = [valid |-> FALSE, new_hash |-> NoHash, verified |-> <<DUMMY_HASH>>]
    /\ \A p \in TriedPasswords, u \in DOMAIN users :
          verify_password_with_timing_safety(p, users[u].hashed_password).verified
              = <<users[u].hashed_password>>
    /\ last.op = "login" =>
          Len(check_credentials(last.users, last.email, last.password).verified) = 1

C19_Witness ==
    /\ last.op = "login"
    /\ get_by_email(last.users, last.email) = NoId
    /\ last.outcome.type = "InvalidCredentials"
    /\ last.users # << >>

(* The error kinds the service raises.                                      *)
AuthenticationFailures ==
    {InvalidCredentials, InactiveUser, TokenRevokedError,
     TokenError("Invalid refresh token"), TokenError("Refresh token expired"),
     TokenError("User not found or inactive"), TokenError("Signature has expired"),
     TokenError("Invalid token type"), TokenError("Token has been invalidated")}

(* The observed request validated an access token or a refresh token that   *)
(* the client presented.                                                    *)
ValidatesPresentedToken ==
    last.op \in {"refresh", "logout", "logout_all", "change_password"}

(* C20: authentication and token failures are rendered with status 401,     *)
(* not-found with 404 and conflicts with 409, in a body {detail, type};     *)
(* UserNotFound (404) never answers a request that validates a presented    *)
(* access token or refresh token.                                           *)
C20_StatusPerKind ==
    /\ \A e \in AuthenticationFailures : app_exception_handler(e).status_code = 401
    /\ app_exception_handler(UserNotFound).status_code = 404
    /\ app_exception_handler(EmailAlreadyExists).status_code = 409
    /\ last.outcome # Ok =>
          /\ DOMAIN app_exception_handler(last.outcome).content = {"detail", "type"}
          /\ last.outcome \in AuthenticationFailures =>
                app_exception_handler(last.outcome).status_code = 401
    /\ ValidatesPresentedToken =>
          /\ last.outcome.type # "UserNotFound"
          /\ app_exception_handler(last.outcome).status_code # 404

(* C21: whatever the interleaving of create_user, admin_create_user and    *)
(* admin_update_user calls, no two users have the same email, and a call    *)
(* that would create the duplicate fails with EmailAlreadyExists (409),     *)
(* creating and modifying no user.                                          *)
C21_EmailUnique ==
    /\ \A u, v \in DOMAIN users : u # v => users[u].email # users[v].email
    /\ \A s \in Slots :
          (reqs[s].pc = "done" /\ reqs[s].op \in UserOps) =>
              \/ reqs[s].outcome = Ok
              \/ reqs[s].outcome = UserNotFound
              \/ /\ reqs[s].outcome = EmailAlreadyExists
                 /\ reqs[s].outcome.status = 409

C23_LogoutAllBeatsRefresh ==
    (last.op = "logout_all" /\ last.outcome = Ok) =>
        LiveUserRows(tokens, last.user, now) = {}

(* The presented token of the observed refresh is stored, revoked and past  *)
(* its expires_at.                                                          *)
PresentedRevokedAndExpired ==
    /\ last.op = "refresh"
    /\ RowsOfRaw(last.tokens, last.raw) # {}
    /\ \A i \in RowsOfRaw(last.tokens, last.raw) :
          last.tokens[i].is_revoked /\ last.tokens[i].expires_at <= now

C25_NoTokensForInactive ==
    /\ \A u \in DOMAIN last.users :
          ~last.users[u].is_active =>
              /\ last.access_token # NoAccess => last.access_token.sub # u
              /\ \A i \in Rows(tokens) \ Rows(last.tokens) : tokens[i].user_id # u
    /\ (last.op = "deactivate_user" /\ last.outcome = Ok) =>
          /\ ~users[last.user].is_active
          /\ \A p \in TriedPasswords :
                authenticate(users, tokens, now, users[last.user].email, p).outcome # Ok
          /\ \A i \in UserRows(tokens, last.user) :
                RefreshOutcome(RawOfRow(tokens, i)) # Ok

C25_Witness ==
    /\ last.op = "deactivate_user"
    /\ last.outcome = Ok
    /\ LiveUserRows(tokens, last.user, now) # {}
    /\ \E a \in access : a.sub = last.user /\ a.exp > now

(* C26: the revocation that a replay in family F triggers changes records   *)
(* of F only: the records of every other family, those of the same user     *)
(* included, keep their revoked flag, and no token_version changes.         *)
C26_ReplayConfinedToFamily ==
    \A i \in RowsOfRaw(last.tokens, last.raw) :
        (last.op = "refresh" /\ last.tokens[i].is_revoked) =>
            /\ Len(tokens) = Len(last.tokens)
            /\ \A j \in Rows(tokens) :
                  tokens[j].family_id # last.tokens[i].family_id =>
                      tokens[j] = last.tokens[j]
            /\ \A j \in Rows(tokens) :
                  tokens[j] = [last.tokens[j] EXCEPT !.is_revoked = tokens[j].is_revoked]
            /\ users = last.users

C26_Witness ==
    /\ last.op = "refresh"
    /\ last.outcome = TokenRevokedError
    /\ \E i \in RowsOfRaw(last.tokens, last.raw) :
          \E j \in UserRows(tokens, last.tokens[i].user_id) :
              /\ tokens[j].family_id # last.tokens[i].family_id
              /\ IsLive(tokens[j], now)

(* C27: a login that fails (unknown email, wrong password, inactive user    *)
(* with the right password) creates no refresh-token record, does not       *)
(* replace the stored hash by an upgraded one and changes no token_version. *)
C27_FailedLoginChangesNothing ==
    (last.op = "login" /\ last.outcome # Ok) =>
        /\ Len(tokens) = Len(last.tokens)
        /\ tokens = last.tokens
        /\ \A u \in DOMAIN last.users :
              /\ users[u].hashed_password = last.users[u].hashed_password
              /\ users[u].token_version = last.users[u].token_version
        /\ last.access_token = NoAccess
        /\ last.raw_refresh = 0

C27_Witness ==
    /\ last.op = "login"
    /\ last.outcome # Ok
    /\ \E u \in AccountsOf(last.users, last.email, last.password) :
          /\ ~last.users[u].is_active
          /\ last.users[u].hashed_password.outdated
          /\ users[u].hashed_password.outdated

(* The observed request is a change_password whose access token was        *)
(* accepted.                                                                *)
ChangePasswordServed ==
    /\ last.op = "change_password"
    /\ get_current_active_user(last.users, last.token, now) = Ok

(* C28: change_password with the right current password replaces the hash  *)
(* and increments token_version but revokes no refresh token: the user's    *)
(* live tokens stay live and a refresh with one of them succeeds and yields *)
(* an access token that is accepted; with a wrong current password it fails *)
(* with InvalidCredentials and changes nothing.                             *)
C28_ChangePasswordKeepsRefreshTokens ==
    ChangePasswordServed =>
        LET u == last.token.sub
            right == verify_password(last.password, last.users[u].hashed_password).valid
        IN  /\ right =>
                  /\ last.outcome = Ok
                  /\ \E p \in Passwords : users[u].hashed_password = hash_password(p)
                  /\ users[u].token_version = last.users[u].token_version + 1
                  /\ tokens = last.tokens
                  /\ \A i \in LiveUserRows(last.tokens, u, now) :
                        LET r == refresh_tokens(users, tokens, now, RawOfRow(tokens, i),
                                                Fresh(UsedRaws(tokens)), "none")
                        IN  /\ IsLive(tokens[i], now)
                            /\ r.outcome = Ok
                            /\ check_token_version(r.users, r.access_token, now) = Ok
            /\ ~right =>
                  /\ last.outcome = InvalidCredentials
                  /\ users = last.users
                  /\ tokens = last.tokens

C28_Witness ==
    /\ ChangePasswordServed
    /\ last.outcome = Ok
    /\ LiveUserRows(tokens, last.token.sub, now) # {}
    /\ users[last.token.sub].hashed_password # last.users[last.token.sub].hashed_password

(* C29: logout changes at most the record whose token_hash is the hash of   *)
(* the presented raw token: every other refresh token and every user's      *)
(* token_version stay as they were, so the access tokens issued before are  *)
(* accepted as before.                                                      *)
C29_LogoutTouchesOneRecord ==
    last.op = "logout" =>
        /\ Len(tokens) = Len(last.tokens)
        /\ \A j \in Rows(tokens) :
              IF tokens[j].token_hash = hash_token(last.raw)
              THEN tokens[j] = [last.tokens[j] EXCEPT !.is_revoked = tokens[j].is_revoked]
              ELSE tokens[j] = last.tokens[j]
        /\ Cardinality(RowsOfRaw(tokens, last.raw)) <= 1
        /\ \A u \in DOMAIN last.users :
              users[u].token_version = last.users[u].token_version
        /\ \A a \in access :
              check_token_version(users, a, now) = check_token_version(last.users, a, now)

C29_Witness ==
    /\ last.op = "logout"
    /\ \E i \in RowsOfRaw(last.tokens, last.raw) :
          /\ IsLive(last.tokens[i], now)
          /\ tokens[i].is_revoked
          /\ \E j \in UserRows(tokens, tokens[i].user_id) : IsLive(tokens[j], now)
    /\ \E a \in access : check_token_version(users, a, now) = Ok

====
